---- MODULE Spec2Model ----
(***************************************************************************)
(* A model of src/src/sync/realtime_channel.rs: RealtimeChannelBuilder,    *)
(* the RealtimeChannel handlers (subscribe, unsubscribe, send, broadcast,  *)
(* set_auth, track, untrack, get_status) and the task spawned by           *)
(* start_thread that dispatches inbound frames.                            *)
(*                                                                         *)
(* Two tasks act on a built channel.  The "caller" runs the handlers; they *)
(* take &mut self, so one call is in progress at a time.  The "thread" is  *)
(* the task of start_thread.  They share the tokio Mutex around the        *)
(* ChannelState (stateLock); the thread also takes the Mutexes around the  *)
(* two callback registries (bcLock, cdcLock).  A tokio Mutex is not        *)
(* re-entrant: lock().await completes only when nobody holds the Mutex.    *)
(***************************************************************************)
EXTENDS Integers, Sequences, FiniteSets, TLC

VARIABLES
    built,                \* build() has run: the channel exists
    topic,                \* RealtimeChannelBuilder.topic, then RealtimeChannel.topic
    state,                \* *RealtimeChannel.state
    stateLock,            \* who holds the Mutex of state
    access_token,         \* join_payload.access_token
    client_tx,            \* the outbound sender the channel writes to
    outbound,             \* per sender, the messages accepted by its queue
    dropped,              \* the senders whose receiver was dropped
    controller,           \* controller: the queue of its receiver (rx), and as
                          \* history every message its sender was given (sent)
    inbound,              \* channel_rx: the frames routed to the channel
    routed,               \* how many frames were routed so far
    thread,               \* the task of start_thread: its position and its frame
    bcLock,               \* who holds the Mutex of broadcast_callbacks
    cdcLock,              \* who holds the Mutex of cdc_callbacks
    broadcast_callbacks,  \* HashMap<String, Vec<BroadcastCallback>>
    cdc_callbacks,        \* HashMap<PostgresChangesEvent, Vec<CdcCallback>>
    postgres_changes,     \* Vec<PostgresChange> of the join config
    registered,           \* history: the on_* calls made on the builder, in order
    owner,                \* the caller: the call in progress, if any
    subscribed,           \* history: subscribe() was called at least once
    last,                 \* history: the last call returned or frame dispatched
    presence,             \* presence.state: what presence_state() returns
    panicking             \* the registered callbacks that panic when they are called

vars == <<built, topic, state, stateLock, access_token, client_tx, outbound,
          dropped, controller, inbound, routed, thread, bcLock, cdcLock,
          broadcast_callbacks, cdc_callbacks, postgres_changes, registered,
          owner, subscribed, last, presence, panicking>>

builderVars == <<broadcast_callbacks, cdc_callbacks, postgres_changes, registered>>
threadVars == <<inbound, routed, thread, bcLock, cdcLock>>
senderVars == <<client_tx, outbound, dropped, controller>>

-----------------------------------------------------------------------------
(* Bounds of the model *)

MaxFrames == 2      \* frames routed to one channel
MaxSent == 2        \* messages accepted by the outbound queue
MaxRegs == 2        \* on_* calls made on one builder
MaxPushes == 1      \* broadcast and change frames routed to a channel with callbacks
MaxControl == 3     \* control messages given to one channel

-----------------------------------------------------------------------------
(* Values *)

None == <<>>
Some(v) == <<v>>

\* Option::unwrap_or
unwrap_or(o, default) == IF o = None THEN default ELSE o[1]

ChannelState == {"Closed", "Errored", "Joined", "Joining", "Leaving"}

\* the state variable before build() has made the channel
NoChannel == "NoChannel"

\* Uuid::new_v4() of the builder, as its string
Id == "6f1c"

\* the uuid of another channel of the same client
OtherId == "a07e"

\* format!("{}+leave", self.id)
leave_ref(id) == id \o "+leave"

\* client.access_token.clone() at RealtimeChannelBuilder::new
ClientToken == "jwt0"

\* the token a later set_auth brings
AccessTokens == {"jwt1"}

\* the sender the client hands to the builder, and one it may install later
Senders == {"tx0", "tx1"}

\* what the caller gives as the topic of a channel
TopicNames == {"room:1"}

\* HashMap<String, Value> payloads, kept abstract
Fields == {"x=1", "y=2"}

BroadcastEvents == {"cursor", "chat"}

\* Result<_, ChannelSendError> and Result<ChannelState, _>
Ok(v) == [tag |-> "Ok", error |-> "", value |-> v]
Err(kind, v) == [tag |-> "Err", error |-> kind, value |-> v]
Unit == ""

\* RealtimeMessage
message(event, t, payload, ref) ==
    [event |-> event, topic |-> t, payload |-> payload, message_ref |-> ref]

NoMessage == message("", "", [kind |-> "Empty"], None)

\* the caller between two calls
Idle == [pc |-> "idle", before |-> "", msg |-> NoMessage]

\* the caller inside a call, at an .await: the state the call found, its message
Suspended(pc, before, msg) == [pc |-> pc, before |-> before, msg |-> msg]

\* the history of one finished step: the handler or match arm `op`, its
\* argument, the state before and after it, what it returned, the messages it
\* put on the outbound queue and the callbacks it ran
Step(op, arg, before, after, ret, enq, calls) ==
    [op |-> op, arg |-> arg, before |-> before, after |-> after,
     ret |-> ret, enq |-> enq, calls |-> calls]

Nothing == Step("", NoMessage, "", "", Ok(Unit), <<>>, <<>>)

\* PresenceState: the keys present, kept abstract; a new engine has none
NoPresence == {}

\* PostgresChangesEvent
PostgresChangesEvent == {"All", "Insert", "Update", "Delete"}

\* the events callbacks are registered under, and the change types of frames
CdcEvents == {"All", "Insert", "Update"}

\* PostgresChangeFilter { schema, table: Option, filter: Option }
filter_of(schema, table, pred) == [schema |-> schema, table |-> table, filter |-> pred]

Filters ==
    { filter_of("public", Some("todos"), None),
      filter_of("public", None, None),
      filter_of("public", Some("todos"), Some("1")) }

\* ChannelControlMessage
ControlMessages ==
    { [kind |-> "Subscribe"] }
        \cup { [kind |-> "Broadcast", payload |-> p] :
                    p \in { [event |-> "cursor", payload |-> "x=1"] } }
        \cup { [kind |-> "ClientTx", tx |-> tx] : tx \in Senders }

\* mpsc::unbounded_channel::<ChannelControlMessage>() of build()
NoControl == [rx |-> <<>>, sent |-> <<>>]

-----------------------------------------------------------------------------
(* Inbound frames.  A frame is the text of a tungstenite Message; decoded  *)
(* is what serde_json::from_str makes of it.  The thread reads only the    *)
(* payload and message_ref of the decoded RealtimeMessage.                 *)

frame_of(payload, ref) == [decodes |-> TRUE, payload |-> payload, message_ref |-> ref]

Undecodable == [decodes |-> FALSE, payload |-> [kind |-> "Empty"], message_ref |-> None]

Refs == {None, Some(Id), Some(leave_ref(Id)), Some(OtherId)}

PayloadStatus == {"Ok", "Error"}

ResponseFrames ==
    { frame_of([kind |-> "Response", status |-> s], r) : s \in PayloadStatus, r \in Refs }

\* payloads that no arm of the match names: they reach the `_` arm.  A
\* PresenceState carries a snapshot, a PresenceDiff the keys joined and left
UnmatchedFrames ==
    { frame_of([kind |-> "PresenceState", state |-> {"alice"}], None),
      frame_of([kind |-> "PresenceDiff", joins |-> {"bob"}, leaves |-> {}], None) }

BroadcastFrames ==
    { frame_of([kind |-> "Broadcast", event |-> e, payload |-> f], None) :
        e \in BroadcastEvents, f \in Fields }

\* a change: its type, schema and table, and the id of its row
PostgresChangesFrames ==
    { frame_of([kind |-> "PostgresChanges", change_type |-> t, schema |-> "public",
                table |-> tr[1], row |-> tr[2]], None) :
        t \in CdcEvents, tr \in {<<"todos", "1">>, <<"todos", "2">>, <<"profiles", "1">>} }

\* the thread's record while no frame is in hand
NoFrame == frame_of([kind |-> "Empty"], None)

-----------------------------------------------------------------------------
(* Messages the caller hands to send() and to the controlled operations *)

\* what a caller tracks as its presence
TrackFields == {"x=1"}

BroadcastPayloads == { [event |-> "cursor", payload |-> "x=1"] }

\* what a caller may pass to send(): the topic is the caller's own choice
CallerMessages ==
    { message("Broadcast", t, [kind |-> "Broadcast", event |-> "chat", payload |-> "y=2"], None) :
        t \in {"realtime:other"} }

join_message ==
    message("PhxJoin", topic, [kind |-> "Join", access_token |-> access_token], Some(Id))

leave_message ==
    message("PhxLeave", topic, [kind |-> "Empty"], Some(leave_ref(Id)))

track_message(payload) ==
    message("Presence", topic, [kind |-> "PresenceTrack", payload |-> payload], None)

untrack_message ==
    message("Untrack", topic, [kind |-> "Empty"], None)

broadcast_message(payload) ==
    message("Broadcast", "",
            [kind |-> "Broadcast", event |-> payload.event, payload |-> payload.payload], None)

access_token_message(token) ==
    message("AccessToken", topic, [kind |-> "AccessToken", access_token |-> token], None)

-----------------------------------------------------------------------------
(* RealtimeChannelBuilder *)

InitBuilder ==
    /\ built = FALSE
    /\ topic = "no_topic"
    /\ state = NoChannel
    /\ stateLock = "none"
    /\ access_token = ClientToken
    /\ client_tx = "tx0"
    /\ outbound = [tx \in Senders |-> <<>>]
    /\ dropped = {}
    /\ controller = NoControl
    /\ inbound = <<>>
    /\ routed = 0
    /\ thread = [pc |-> "unspawned", frame |-> NoFrame]
    /\ bcLock = "none"
    /\ cdcLock = "none"
    /\ broadcast_callbacks = <<>>
    /\ cdc_callbacks = <<>>
    /\ postgres_changes = <<>>
    /\ registered = <<>>
    /\ owner = Idle
    /\ subscribed = FALSE
    /\ last = Nothing
    /\ presence = NoPresence
    /\ panicking = {}

\* format!("realtime:{}", topic.into())
topic_of(name) == "realtime:" \o name

builder_topic ==
    /\ ~built
    /\ \E name \in TopicNames : topic' = topic_of(name)
    /\ UNCHANGED <<presence, panicking, built, state, stateLock, access_token, owner, subscribed, last>>
    /\ UNCHANGED <<builderVars, threadVars, senderVars>>

\* push_callback with the insert of an empty Vec made without the is_none test
push_callback_resets(registry, key, entry) ==
    [k \in DOMAIN registry \cup {key} |->
        IF k = key THEN <<entry>> ELSE registry[k]]

\* if get_mut(&key).is_none() { insert(key, vec![]) }; get_mut(&key).push(entry)
push_callback(registry, key, entry) ==
    LET present == IF key \in DOMAIN registry THEN registry ELSE registry @@ (key :> <<>>)
    IN  [present EXCEPT ![key] = Append(@, entry)]

\* HashMap::get_mut(&key): the Vec under key, nothing when the key is absent
get_mut(registry, key) == IF key \in DOMAIN registry THEN registry[key] ELSE <<>>

\* on_broadcast(event, callback) with a callback that panics when it is called
on_broadcast_panicking ==
    /\ ~built
    /\ Len(registered) < MaxRegs
    /\ \E event \in BroadcastEvents :
         LET callback == Len(registered) + 1 IN
         /\ broadcast_callbacks' = push_callback(broadcast_callbacks, event, callback)
         /\ registered' = Append(registered,
                [kind |-> "broadcast", event |-> event, callback |-> callback])
         /\ panicking' = panicking \cup {callback}
    /\ UNCHANGED <<presence, built, topic, state, stateLock, access_token, owner, subscribed, last>>
    /\ UNCHANGED <<cdc_callbacks, postgres_changes, threadVars, senderVars>>

\* on_broadcast(event, callback) with a callback that returns
on_broadcast ==
    /\ ~built
    /\ Len(registered) < MaxRegs
    /\ \E event \in BroadcastEvents :
         LET callback == Len(registered) + 1 IN
         /\ broadcast_callbacks' = push_callback(broadcast_callbacks, event, callback)
         /\ registered' = Append(registered,
                [kind |-> "broadcast", event |-> event, callback |-> callback])
    /\ UNCHANGED <<presence, panicking, built, topic, state, stateLock, access_token, owner, subscribed, last>>
    /\ UNCHANGED <<cdc_callbacks, postgres_changes, threadVars, senderVars>>

on_postgres_change ==
    /\ ~built
    /\ Len(registered) < MaxRegs
    /\ \E event \in CdcEvents, filter \in Filters :
         LET callback == Len(registered) + 1 IN
         /\ postgres_changes' = Append(postgres_changes,
                [event |-> event, schema |-> filter.schema,
                 table |-> unwrap_or(filter.table, ""), filter |-> filter.filter])
         /\ cdc_callbacks' = push_callback(cdc_callbacks, event,
                [filter |-> filter, callback |-> callback])
         /\ registered' = Append(registered,
                [kind |-> "cdc", event |-> event, filter |-> filter, callback |-> callback])
    /\ UNCHANGED <<presence, panicking, built, topic, state, stateLock, access_token, owner, subscribed, last>>
    /\ UNCHANGED <<broadcast_callbacks, threadVars, senderVars>>

\* build(): the channel starts Closed, start_thread spawns the dispatch task
build ==
    /\ ~built
    /\ built' = TRUE
    /\ state' = "Closed"
    /\ thread' = [pc |-> "recv", frame |-> NoFrame]
    /\ UNCHANGED <<presence, panicking, topic, stateLock, access_token, owner, subscribed, last>>
    /\ UNCHANGED <<builderVars, senderVars>>
    /\ UNCHANGED <<inbound, routed, bcLock, cdcLock>>

-----------------------------------------------------------------------------
(* RealtimeChannel: the handlers *)

\* the messages every outbound queue has accepted so far
Sent == Len(outbound["tx0"]) + Len(outbound["tx1"])

\* a call may start: the channel exists and no other call borrows it
CanCall == built /\ owner.pc = "idle"

\* UnboundedSender::send(message) is Ok: the message is on the sender's queue
Accept(enq) ==
    /\ Sent + Len(enq) <= MaxSent
    /\ outbound' = [outbound EXCEPT ![client_tx] = @ \o enq]

\* send without `message.topic = self.topic.clone()`
send_keeps_topic(lock, msg) ==
    IF lock # "none"
    THEN [pending |-> TRUE, ret |-> Ok(Unit), enq |-> <<>>]
    ELSE IF state = "Leaving"
    THEN [pending |-> FALSE, ret |-> Err("ChannelError", state), enq |-> <<>>]
    ELSE IF client_tx \in dropped
    THEN [pending |-> FALSE, ret |-> Err("SendError", Unit), enq |-> <<>>]
    ELSE [pending |-> FALSE, ret |-> Ok(Unit), enq |-> <<msg>>]

\* send without the test of Leaving
send_while_leaving(lock, msg) ==
    LET m == [msg EXCEPT !.topic = topic] IN
    IF lock # "none"
    THEN [pending |-> TRUE, ret |-> Ok(Unit), enq |-> <<>>]
    ELSE IF client_tx \in dropped
    THEN [pending |-> FALSE, ret |-> Err("SendError", Unit), enq |-> <<>>]
    ELSE [pending |-> FALSE, ret |-> Ok(Unit), enq |-> <<m>>]

\* send that answers Ok when the sender refuses the write
send_swallows_error(lock, msg) ==
    LET m == [msg EXCEPT !.topic = topic] IN
    IF lock # "none"
    THEN [pending |-> TRUE, ret |-> Ok(Unit), enq |-> <<>>]
    ELSE IF state = "Leaving"
    THEN [pending |-> FALSE, ret |-> Err("ChannelError", state), enq |-> <<>>]
    ELSE IF client_tx \in dropped
    THEN [pending |-> FALSE, ret |-> Ok(Unit), enq |-> <<>>]
    ELSE [pending |-> FALSE, ret |-> Ok(Unit), enq |-> <<m>>]

\* send(message), called while `lock` holds the Mutex of state.  The call first
\* awaits that Mutex (line 263): it stays pending while somebody holds it.
send(lock, msg) ==
    LET m == [msg EXCEPT !.topic = topic] IN
    IF lock # "none"
    THEN [pending |-> TRUE, ret |-> Ok(Unit), enq |-> <<>>]
    ELSE IF state = "Leaving"
    THEN [pending |-> FALSE, ret |-> Err("ChannelError", state), enq |-> <<>>]
    ELSE IF client_tx \in dropped
    THEN [pending |-> FALSE, ret |-> Err("SendError", Unit), enq |-> <<>>]
    ELSE [pending |-> FALSE, ret |-> Ok(Unit), enq |-> <<m>>]

\* `let _ = self.send(..)` with no .await: the future of the async fn is built
\* and dropped, and its body never runs
not_awaited(future) ==
    [pending |-> FALSE, ret |-> Ok(Unit), enq |-> <<>>]

\* presence_state(): a clone of presence.state
presence_state == presence

\* get_status(): a snapshot of the state
get_status ==
    /\ CanCall
    /\ stateLock = "none"
    /\ last' = Step("get_status", NoMessage, state, state, Ok(state), <<>>, <<>>)
    /\ UNCHANGED <<presence, panicking, built, topic, state, stateLock, access_token, owner, subscribed>>
    /\ UNCHANGED <<builderVars, threadVars, senderVars>>

\* subscribe that goes to the send without writing Joining
subscribe_keeps_state ==
    /\ CanCall
    /\ Sent < MaxSent
    /\ stateLock = "none"
    /\ subscribed' = TRUE
    /\ owner' = Suspended("subscribe_send", state, join_message)
    /\ UNCHANGED <<presence, panicking, built, topic, state, stateLock, access_token, last>>
    /\ UNCHANGED <<builderVars, threadVars, senderVars>>

\* subscribe(), lines 81-90: build the join message, lock, write Joining, unlock
subscribe ==
    /\ CanCall
    /\ Sent < MaxSent
    /\ stateLock = "none"
    /\ state' = "Joining"
    /\ subscribed' = TRUE
    /\ owner' = Suspended("subscribe_send", state, join_message)
    /\ UNCHANGED <<presence, panicking, built, topic, stateLock, access_token, last>>
    /\ UNCHANGED <<builderVars, threadVars, senderVars>>

\* a subscribe that sends the join request only from a channel that is
\* neither Joining nor Joined
subscribe_send_once ==
    /\ owner.pc = "subscribe_send"
    /\ LET r == IF owner.before \in {"Joining", "Joined"}
                THEN not_awaited(owner.msg)
                ELSE send(stateLock, owner.msg) IN
       /\ ~r.pending
       /\ Accept(r.enq)
       /\ last' = Step("subscribe", owner.msg, owner.before, state, Ok(Unit), r.enq, <<>>)
    /\ owner' = Idle
    /\ UNCHANGED <<presence, panicking, built, topic, state, stateLock, access_token, subscribed>>
    /\ UNCHANGED <<builderVars, threadVars, client_tx, dropped, controller>>

\* a subscribe whose send makes its test of Leaving on the state the call found
subscribe_send_found ==
    /\ owner.pc = "subscribe_send"
    /\ LET r == IF owner.before = "Leaving"
                THEN [pending |-> FALSE, ret |-> Err("ChannelError", owner.before), enq |-> <<>>]
                ELSE send(stateLock, owner.msg) IN
       /\ ~r.pending
       /\ Accept(r.enq)
       /\ last' = Step("subscribe", owner.msg, owner.before, state, Ok(Unit), r.enq, <<>>)
    /\ owner' = Idle
    /\ UNCHANGED <<presence, panicking, built, topic, state, stateLock, access_token, subscribed>>
    /\ UNCHANGED <<builderVars, threadVars, client_tx, dropped, controller>>

\* subscribe(), line 92: let _ = self.send(join_message.into()).await
subscribe_send ==
    /\ owner.pc = "subscribe_send"
    /\ LET r == send(stateLock, owner.msg) IN
       /\ ~r.pending
       /\ Accept(r.enq)
       /\ last' = Step("subscribe", owner.msg, owner.before, state, Ok(Unit), r.enq, <<>>)
    /\ owner' = Idle
    /\ UNCHANGED <<presence, panicking, built, topic, state, stateLock, access_token, subscribed>>
    /\ UNCHANGED <<builderVars, threadVars, client_tx, dropped, controller>>

\* unsubscribe whose early return answers Closed whatever it found
unsubscribe_outcome_closed(st) ==
    IF st = "Closed" \/ st = "Leaving"
    THEN [pending |-> FALSE, ret |-> Ok("Closed"), state |-> st, enq |-> <<>>]
    ELSE [pending |-> TRUE, ret |-> Ok(Unit), state |-> st, enq |-> <<>>]

\* what unsubscribe() comes to from state st: it returns early, or it calls
\* send while its own guard of the state Mutex (line 179) is alive
unsubscribe_outcome(st) ==
    IF st = "Closed" \/ st = "Leaving"
    THEN [pending |-> FALSE, ret |-> Ok(st), state |-> st, enq |-> <<>>]
    ELSE LET r == send("caller", leave_message) IN
         IF r.pending
         THEN [pending |-> TRUE, ret |-> Ok(Unit), state |-> st, enq |-> <<>>]
         ELSE IF r.ret.tag = "Ok"
         THEN [pending |-> FALSE, ret |-> Ok("Leaving"), state |-> "Leaving", enq |-> r.enq]
         ELSE IF r.ret.error = "ChannelError"
         THEN [pending |-> FALSE, ret |-> Ok(r.ret.value), state |-> st, enq |-> r.enq]
         ELSE [pending |-> FALSE, ret |-> r.ret, state |-> st, enq |-> r.enq]

\* unsubscribe()
unsubscribe ==
    /\ CanCall
    /\ stateLock = "none"
    /\ LET r == unsubscribe_outcome(state) IN
       /\ state' = r.state
       /\ Accept(r.enq)
       /\ IF r.pending
          THEN /\ stateLock' = "caller"
               /\ owner' = Suspended("unsubscribe_send", state, leave_message)
               /\ last' = last
          ELSE /\ stateLock' = "none"
               /\ owner' = Idle
               /\ last' = Step("unsubscribe", leave_message, state, r.state, r.ret, r.enq, <<>>)
    /\ UNCHANGED <<presence, panicking, built, topic, access_token, subscribed>>
    /\ UNCHANGED <<builderVars, threadVars, client_tx, dropped, controller>>

\* track(payload): returns &mut self
track ==
    /\ CanCall
    /\ \E payload \in TrackFields :
         LET r == not_awaited(send(stateLock, track_message(payload))) IN
         /\ Accept(r.enq)
         /\ last' = Step("track", track_message(payload), state, state, r.ret, r.enq, <<>>)
    /\ UNCHANGED <<presence, panicking, built, topic, state, stateLock, access_token, owner, subscribed>>
    /\ UNCHANGED <<builderVars, threadVars, client_tx, dropped, controller>>

\* untrack()
untrack ==
    /\ CanCall
    /\ LET r == not_awaited(send(stateLock, untrack_message)) IN
       /\ Accept(r.enq)
       /\ last' = Step("untrack", untrack_message, state, state, r.ret, r.enq, <<>>)
    /\ UNCHANGED <<presence, panicking, built, topic, state, stateLock, access_token, owner, subscribed>>
    /\ UNCHANGED <<builderVars, threadVars, client_tx, dropped, controller>>

\* send(message), called by the owner of the channel
Send ==
    /\ CanCall
    /\ \E msg \in CallerMessages :
         LET r == send(stateLock, msg) IN
         /\ ~r.pending
         /\ Accept(r.enq)
         /\ last' = Step("send", msg, state, state, r.ret, r.enq, <<>>)
    /\ UNCHANGED <<presence, panicking, built, topic, state, stateLock, access_token, owner, subscribed>>
    /\ UNCHANGED <<builderVars, threadVars, client_tx, dropped, controller>>

\* broadcast(payload)
broadcast ==
    /\ CanCall
    /\ \E payload \in BroadcastPayloads :
         LET r == send(stateLock, broadcast_message(payload)) IN
         /\ ~r.pending
         /\ Accept(r.enq)
         /\ last' = Step("broadcast", broadcast_message(payload), state, state,
                         r.ret, r.enq, <<>>)
    /\ UNCHANGED <<presence, panicking, built, topic, state, stateLock, access_token, owner, subscribed>>
    /\ UNCHANGED <<builderVars, threadVars, client_tx, dropped, controller>>

\* set_auth that stores the token after the test of Joined, not before it
set_auth_joined_only ==
    /\ CanCall
    /\ Sent < MaxSent
    /\ stateLock = "none"
    /\ \E token \in AccessTokens :
         IF state # "Joined"
         THEN /\ access_token' = access_token
              /\ owner' = Idle
              /\ last' = Step("set_auth", access_token_message(token), state, state,
                              Ok(Unit), <<>>, <<>>)
         ELSE /\ access_token' = token
              /\ owner' = Suspended("set_auth_send", state, access_token_message(token))
              /\ last' = last
    /\ UNCHANGED <<presence, panicking, built, topic, state, stateLock, subscribed>>
    /\ UNCHANGED <<builderVars, threadVars, senderVars>>

\* set_auth(access_token), lines 289-297: store the token, lock, read the state
set_auth ==
    /\ CanCall
    /\ Sent < MaxSent
    /\ stateLock = "none"
    /\ \E token \in AccessTokens :
         /\ access_token' = token
         /\ IF state # "Joined"
            THEN /\ owner' = Idle
                 /\ last' = Step("set_auth", access_token_message(token), state, state,
                                 Ok(Unit), <<>>, <<>>)
            ELSE /\ owner' = Suspended("set_auth_send", state, access_token_message(token))
                 /\ last' = last
    /\ UNCHANGED <<presence, panicking, built, topic, state, stateLock, subscribed>>
    /\ UNCHANGED <<builderVars, threadVars, senderVars>>

\* set_auth(access_token), line 306: self.send(access_token_message).await
set_auth_send ==
    /\ owner.pc = "set_auth_send"
    /\ LET r == send(stateLock, owner.msg) IN
       /\ ~r.pending
       /\ Accept(r.enq)
       /\ last' = Step("set_auth", owner.msg, owner.before, state, r.ret, r.enq, <<>>)
    /\ owner' = Idle
    /\ UNCHANGED <<presence, panicking, built, topic, state, stateLock, access_token, subscribed>>
    /\ UNCHANGED <<builderVars, threadVars, client_tx, dropped, controller>>

\* the client drops the receiver of the channel's outbound sender
receiver_dropped ==
    /\ built
    /\ client_tx \notin dropped
    /\ dropped' = dropped \cup {client_tx}
    /\ UNCHANGED <<presence, panicking, built, topic, state, stateLock, access_token, owner, subscribed, last>>
    /\ UNCHANGED <<builderVars, threadVars, client_tx, outbound, controller>>

-----------------------------------------------------------------------------
(* run_controller: the loop over the control messages.  It borrows the     *)
(* channel for as long as it runs, so its arms are the only calls made.    *)

\* a receiver that hands out the newest message of its queue
recv_newest(queue) ==
    [message |-> queue[Len(queue)], rest |-> SubSeq(queue, 1, Len(queue) - 1)]

\* UnboundedReceiver::recv() on a queue that is not empty: its oldest message
recv(queue) == [message |-> Head(queue), rest |-> Tail(queue)]

\* a holder of the sender returned by build() gives it a control message
control ==
    /\ built
    /\ Len(controller.sent) < MaxControl
    /\ \E control_message \in ControlMessages :
         controller' = [rx |-> Append(controller.rx, control_message),
                        sent |-> Append(controller.sent, control_message)]
    /\ UNCHANGED <<presence, panicking, built, topic, state, stateLock, access_token, owner, subscribed, last>>
    /\ UNCHANGED <<builderVars, threadVars, client_tx, outbound, dropped>>

\* a ClientTx arm that keeps the sender the channel has
installed_never(tx, control_message) == tx

\* line 171: the sender of the channel after the arm of a control message
installed(tx, control_message) ==
    IF control_message.kind = "ClientTx" THEN control_message.tx ELSE tx

\* the loop is at its recv and the next control message is of this kind
controller_recv(kind) ==
    /\ CanCall
    /\ controller.rx # <<>>
    /\ recv(controller.rx).message.kind = kind
    /\ controller' = [controller EXCEPT !.rx = recv(controller.rx).rest]

\* line 167: ChannelControlMessage::Subscribe => self.subscribe().await, up to
\* the send of subscribe (which is subscribe_send)
run_controller_subscribe ==
    /\ controller_recv("Subscribe")
    /\ Sent < MaxSent
    /\ stateLock = "none"
    /\ state' = "Joining"
    /\ subscribed' = TRUE
    /\ owner' = Suspended("subscribe_send", state, join_message)
    /\ UNCHANGED <<presence, panicking, built, topic, stateLock, access_token, last>>
    /\ UNCHANGED <<builderVars, threadVars, client_tx, outbound, dropped>>

\* lines 168-170: ChannelControlMessage::Broadcast(payload)
run_controller_broadcast ==
    /\ controller_recv("Broadcast")
    /\ LET payload == recv(controller.rx).message.payload
           r == send(stateLock, broadcast_message(payload)) IN
       /\ ~r.pending
       /\ Accept(r.enq)
       /\ last' = Step("broadcast", broadcast_message(payload), state, state,
                       r.ret, r.enq, <<>>)
    /\ UNCHANGED <<presence, panicking, built, topic, state, stateLock, access_token, owner, subscribed>>
    /\ UNCHANGED <<builderVars, threadVars, client_tx, dropped>>

\* line 171: ChannelControlMessage::ClientTx(tx) => self.client_tx = tx
run_controller_client_tx ==
    /\ controller_recv("ClientTx")
    /\ client_tx' = installed(client_tx, recv(controller.rx).message)
    /\ UNCHANGED <<presence, panicking, built, topic, state, stateLock, access_token, owner, subscribed, last>>
    /\ UNCHANGED <<builderVars, threadVars, outbound, dropped>>

-----------------------------------------------------------------------------
(* The client routes frames to the channel's inbound queue (channel_tx) *)

route(frame) ==
    /\ built
    /\ inbound' = Append(inbound, frame)
    /\ routed' = routed + 1
    /\ UNCHANGED <<presence, panicking, built, topic, state, stateLock, access_token, owner, subscribed, last>>
    /\ UNCHANGED <<builderVars, senderVars>>
    /\ UNCHANGED <<thread, bcLock, cdcLock>>

route_response == routed < MaxFrames /\ \E frame \in ResponseFrames : route(frame)

\* the server's reply to the join request of this channel
JoinReply == frame_of([kind |-> "Response", status |-> "Ok"], Some(Id))

route_join_reply == routed < MaxFrames /\ route(JoinReply)

route_unmatched == routed < MaxFrames /\ \E frame \in UnmatchedFrames : route(frame)

route_undecodable == routed < MaxFrames /\ route(Undecodable)

\* one frame of every kind the loop tells apart: the reply to the join, a
\* Response that answers another channel, presence, a Broadcast per event
InboundFrames ==
    { JoinReply,
      frame_of([kind |-> "Response", status |-> "Ok"], Some(OtherId)),
      frame_of([kind |-> "Broadcast", event |-> "cursor", payload |-> "x=1"], None),
      frame_of([kind |-> "Broadcast", event |-> "chat", payload |-> "y=2"], None) }
      \cup UnmatchedFrames

route_inbound == routed < MaxFrames /\ \E frame \in InboundFrames : route(frame)

route_broadcast == routed < MaxPushes /\ \E frame \in BroadcastFrames : route(frame)

route_postgres_changes == routed < MaxPushes /\ \E frame \in PostgresChangesFrames : route(frame)

-----------------------------------------------------------------------------
(* start_thread: the dispatch task *)

\* PostgresChangeFilter::check(message).is_some(): the schema is the same, the
\* table is the same or the filter names none, and the filter's column
\* predicate, if it has one, holds of the changed row
check(filter, payload) ==
    /\ filter.schema = payload.schema
    /\ filter.table = None \/ filter.table = Some(payload.table)
    /\ filter.filter = None \/ filter.filter = Some(payload.row)

call(callback, arg) == [callback |-> callback, arg |-> arg]

\* lines 116-120: every callback under the payload's event, in the Vec's order
broadcast_calls(payload) ==
    LET cb_vec == get_mut(broadcast_callbacks, payload.event) IN
    [i \in 1..Len(cb_vec) |-> call(cb_vec[i], payload.payload)]

\* one loop over a Vec<CdcCallback>: the callbacks whose filter passes the check
cdc_loop(cb_vec, payload) ==
    LET passing == SelectSeq(cb_vec, LAMBDA cb : check(cb.filter, payload)) IN
    [i \in 1..Len(passing) |-> call(passing[i].callback, payload)]

\* the dispatch of a change without the second loop, over the Vec under All
postgres_changes_calls_own_type(payload) ==
    cdc_loop(get_mut(cdc_callbacks, payload.change_type), payload)

\* lines 123-138: the Vec under the change type, then the Vec under All
postgres_changes_calls(payload) ==
    cdc_loop(get_mut(cdc_callbacks, payload.change_type), payload)
        \o cdc_loop(get_mut(cdc_callbacks, "All"), payload)

\* the Response arm without the comparison of message_ref with the id
join_response_any_ref(frame) ==
    IF frame.payload.status = "Ok"
    THEN [returns |-> FALSE, locks |-> TRUE, state |-> "Joined"]
    ELSE [returns |-> FALSE, locks |-> FALSE, state |-> state]

\* a Response arm in which the reply to the leave request closes the channel
join_response_closes_on_leave(frame) ==
    LET target_id == unwrap_or(frame.message_ref, "") IN
    IF target_id = leave_ref(Id)
    THEN [returns |-> FALSE, locks |-> TRUE, state |-> "Closed"]
    ELSE IF target_id # Id
    THEN [returns |-> TRUE, locks |-> FALSE, state |-> state]
    ELSE IF frame.payload.status = "Ok"
    THEN [returns |-> FALSE, locks |-> TRUE, state |-> "Joined"]
    ELSE [returns |-> FALSE, locks |-> FALSE, state |-> state]

\* lines 141-149: what a Response does.  returns: the task returns from its
\* closure; locks: the arm awaits the Mutex of state; state: the state after
join_response(frame) ==
    LET target_id == unwrap_or(frame.message_ref, "") IN
    IF target_id # Id
    THEN [returns |-> TRUE, locks |-> FALSE, state |-> state]
    ELSE IF frame.payload.status = "Ok"
    THEN [returns |-> FALSE, locks |-> TRUE, state |-> "Joined"]
    ELSE [returns |-> FALSE, locks |-> FALSE, state |-> state]

\* lines 104-112: take a frame, decode it (unwrap panics on a frame that does
\* not decode), lock both registries
thread_recv ==
    /\ thread.pc = "recv"
    /\ inbound # <<>>
    /\ bcLock = "none" /\ cdcLock = "none"
    /\ LET r == recv(inbound) IN
       /\ inbound' = r.rest
       /\ IF r.message.decodes
          THEN /\ thread' = [pc |-> "match", frame |-> r.message]
               /\ bcLock' = "thread"
               /\ cdcLock' = "thread"
          ELSE /\ thread' = [pc |-> "panicked", frame |-> r.message]
               /\ UNCHANGED <<bcLock, cdcLock>>
    /\ UNCHANGED <<presence, panicking, built, topic, state, stateLock, access_token, owner, subscribed, last>>
    /\ UNCHANGED <<builderVars, senderVars, routed>>

\* the end of one iteration: both guards dropped (lines 156-157), or the task
\* gone with them
Finish(pc, after, calls) ==
    /\ thread' = [pc |-> pc, frame |-> NoFrame]
    /\ bcLock' = "none"
    /\ cdcLock' = "none"
    /\ state' = after
    /\ last' = Step(thread.frame.payload.kind, thread.frame, state, after, Ok(Unit), <<>>, calls)
    /\ UNCHANGED <<presence, panicking, built, topic, stateLock, access_token, owner, subscribed>>
    /\ UNCHANGED <<builderVars, senderVars, inbound, routed>>

\* a callback among these calls panics
panics(calls) == \E i \in 1..Len(calls) : calls[i].callback \in panicking

\* the calls that are made: nothing catches a panic, so the first callback
\* that panics unwinds the task and the calls after it are not made
until_panic(calls) ==
    IF panics(calls)
    THEN SubSeq(calls, 1, CHOOSE i \in 1..Len(calls) :
                    /\ calls[i].callback \in panicking
                    /\ \A j \in 1..(i - 1) : calls[j].callback \notin panicking)
    ELSE calls

\* where the task is after a loop of calls: at the next recv, or gone
after_calls(calls) == IF panics(calls) THEN "panicked" ELSE "recv"

thread_broadcast ==
    /\ thread.pc = "match"
    /\ thread.frame.payload.kind = "Broadcast"
    /\ LET calls == broadcast_calls(thread.frame.payload) IN
       Finish(after_calls(calls), state, until_panic(calls))

thread_postgres_changes ==
    /\ thread.pc = "match"
    /\ thread.frame.payload.kind = "PostgresChanges"
    /\ LET calls == postgres_changes_calls(thread.frame.payload) IN
       Finish(after_calls(calls), state, until_panic(calls))

thread_response ==
    /\ thread.pc = "match"
    /\ thread.frame.payload.kind = "Response"
    /\ LET r == join_response(thread.frame) IN
       /\ r.locks => stateLock = "none"
       /\ Finish(IF r.returns THEN "returned" ELSE "recv", r.state, <<>>)

\* the `_` arm: println!("Unmatched payload ;_;")
thread_unmatched ==
    /\ thread.pc = "match"
    /\ thread.frame.payload.kind \notin {"Broadcast", "PostgresChanges", "Response"}
    /\ Finish("recv", state, <<>>)

-----------------------------------------------------------------------------
(* Specifications.  The caller's handlers and the dispatch task run side   *)
(* by side and meet only in state and its Mutex, so each specification     *)
(* takes the actions that write or read what its claims are about; all of  *)
(* them take their actions from the definitions above.                     *)

\* the join/leave state machine: the handlers that write or read the state,
\* and the dispatch of every kind of Response
Next ==
    \/ builder_topic
    \/ build
    \/ get_status
    \/ subscribe
    \/ subscribe_send
    \/ unsubscribe
    \/ track
    \/ untrack
    \/ route_response
    \/ thread_recv
    \/ thread_response

Spec == InitBuilder /\ [][Next]_vars

\* the outbound path: every handler that hands a message to send, a receiver
\* that may go away, and the reply that makes the channel Joined
NextSend ==
    \/ builder_topic
    \/ build
    \/ subscribe
    \/ subscribe_send
    \/ unsubscribe
    \/ track
    \/ untrack
    \/ Send
    \/ broadcast
    \/ set_auth
    \/ set_auth_send
    \/ receiver_dropped
    \/ route_join_reply
    \/ thread_recv
    \/ thread_response

SpecSend == InitBuilder /\ [][NextSend]_vars

\* the handlers as functions of the ChannelState they find: a built channel
\* whose state is any value of the enum
InitAnyState ==
    /\ built = TRUE
    /\ topic = topic_of("room:1")
    /\ state \in ChannelState
    /\ stateLock = "none"
    /\ access_token = ClientToken
    /\ client_tx = "tx0"
    /\ outbound = [tx \in Senders |-> <<>>]
    /\ dropped = {}
    /\ controller = NoControl
    /\ inbound = <<>>
    /\ routed = 0
    /\ thread = [pc |-> "recv", frame |-> NoFrame]
    /\ bcLock = "none"
    /\ cdcLock = "none"
    /\ broadcast_callbacks = <<>>
    /\ cdc_callbacks = <<>>
    /\ postgres_changes = <<>>
    /\ registered = <<>>
    /\ owner = Idle
    /\ subscribed = FALSE
    /\ last = Nothing
    /\ presence = NoPresence
    /\ panicking = {}

NextAnyState ==
    \/ get_status
    \/ subscribe
    \/ subscribe_send
    \/ unsubscribe
    \/ track
    \/ untrack
    \/ Send
    \/ broadcast
    \/ set_auth
    \/ set_auth_send
    \/ receiver_dropped

SpecAnyState == InitAnyState /\ [][NextAnyState]_vars

\* the callbacks: a builder that registers them, and the dispatch of
\* broadcasts and changes
NextDispatch ==
    \/ on_broadcast
    \/ on_postgres_change
    \/ build
    \/ route_broadcast
    \/ route_postgres_changes
    \/ thread_recv
    \/ thread_broadcast
    \/ thread_postgres_changes

SpecDispatch == InitBuilder /\ [][NextDispatch]_vars

\* the dispatch loop over a queue of frames of every kind, with callbacks that
\* return and callbacks that panic
NextInbound ==
    \/ on_broadcast
    \/ on_broadcast_panicking
    \/ build
    \/ route_inbound
    \/ route_undecodable
    \/ thread_recv
    \/ thread_broadcast
    \/ thread_response
    \/ thread_unmatched

SpecInbound == InitBuilder /\ [][NextInbound]_vars

\* the dispatch loop alone, over frames that decode and run no callback.  The
\* runtime keeps polling a spawned task that can make progress: each step of
\* the task is taken with weak fairness
NextLoop ==
    \/ build
    \/ route_response
    \/ route_unmatched
    \/ thread_recv
    \/ thread_response
    \/ thread_unmatched

SpecLoopFair ==
    /\ InitBuilder
    /\ [][NextLoop]_vars
    /\ WF_vars(thread_recv)
    /\ WF_vars(thread_response)
    /\ WF_vars(thread_unmatched)

\* the control loop: the holders of the controller's sender, and the arms of
\* run_controller
NextControl ==
    \/ build
    \/ control
    \/ run_controller_subscribe
    \/ subscribe_send
    \/ run_controller_broadcast
    \/ run_controller_client_tx

SpecControl == InitBuilder /\ [][NextControl]_vars

-----------------------------------------------------------------------------
(* Claims *)

\* the last step was the Response arm, run on a frame with this ref and status
ResponseHandled(ref, status) ==
    /\ last.op = "Response"
    /\ last.arg.message_ref = ref
    /\ last.arg.payload.status = status

\* C1: a success Response whose ref is the channel's id makes the state
\* Joined when it was Joining, and leaves every other state as it was.
C1_ResponseJoinsOnlyFromJoining ==
    ResponseHandled(Some(Id), "Ok") =>
        last.after = IF last.before = "Joining" THEN "Joined" ELSE last.before

\* C2: a Response whose ref is not the channel's id (no ref, another channel's
\* id, this channel's "{id}+leave"), or whose status is a failure, leaves the
\* state as it was.
C2_OtherResponsesKeepState ==
    (last.op = "Response"
        /\ (last.arg.message_ref # Some(Id) \/ last.arg.payload.status # "Ok"))
    => last.after = last.before

\* a success Response carrying the leave ref was dispatched to a Joining
\* channel, which is still Joining
C2_Witness ==
    /\ ResponseHandled(Some(leave_ref(Id)), "Ok")
    /\ last.before = "Joining"
    /\ last.after = "Joining"

\* C3: get_status() called after build() and before the first subscribe()
\* returns Closed, whatever frames were routed to the channel.
C3_ClosedUntilSubscribe ==
    (last.op = "get_status" /\ ~subscribed) => last.ret = Ok("Closed")

\* C4: unsubscribe() called in a state that is neither Closed nor Leaving,
\* with a sender that accepts the write, returns: it is never left waiting
\* for the Mutex of state, and once returned it has put the one leave message
\* (ref "{id}+leave", the channel's topic) on the sender and the state is
\* Leaving.
C4_UnsubscribeLeaves ==
    /\ ~(owner.pc = "unsubscribe_send" /\ owner.before \notin {"Closed", "Leaving"}
            /\ client_tx \notin dropped)
    /\ (last.op = "unsubscribe" /\ last.before \notin {"Closed", "Leaving"}
            /\ client_tx \notin dropped)
       => /\ last.enq = <<message("PhxLeave", topic, [kind |-> "Empty"], Some(leave_ref(Id)))>>
          /\ last.after = "Leaving"

\* C5: unsubscribe() called while the state is Closed or Leaving returns that
\* state, puts nothing on the sender and leaves the state as it was; this
\* holds of every such call, so of any number of them in a row.
C5_UnsubscribeIdempotent ==
    (last.op = "unsubscribe" /\ last.before \in {"Closed", "Leaving"})
    => /\ last.ret = Ok(last.before)
       /\ last.enq = <<>>
       /\ last.after = last.before

\* unsubscribe() has returned from a Leaving channel
C5_Witness ==
    /\ last.op = "unsubscribe"
    /\ last.before = "Leaving"
    /\ last.ret = Ok("Leaving")
    /\ state = "Leaving"

\* C6: track(fields) on a channel that subscribe() and the reply to its join
\* made Joined puts exactly one PresenceTrack message with those fields and
\* the channel's topic on the sender.
C6_TrackSendsPresence ==
    (last.op = "track" /\ subscribed /\ last.before = "Joined" /\ client_tx \notin dropped)
    => /\ Len(last.enq) = 1
       /\ last.enq[1].payload = last.arg.payload
       /\ last.enq[1].payload.kind = "PresenceTrack"
       /\ last.enq[1].topic = topic

\* C7: every message on an outbound sender carries the channel's topic.
C7_OutboundTopic ==
    \A tx \in Senders : \A i \in 1..Len(outbound[tx]) : outbound[tx][i].topic = topic

\* broadcast() handed send a message with the empty topic, send() was handed
\* one with another channel's topic, and both are on the sender
C7_Witness ==
    /\ topic = topic_of("room:1")
    /\ \E i \in 1..Len(outbound[client_tx]) :
          outbound[client_tx][i].payload.kind = "Broadcast"
          /\ outbound[client_tx][i].payload.event = "cursor"
    /\ last.op = "send"
    /\ last.arg.topic = "realtime:other"
    /\ Len(last.enq) = 1

\* C8: send(message) on a Leaving channel returns ChannelError(Leaving), puts
\* nothing on the sender and leaves the state Leaving; in every other state
\* the message goes to the sender, which takes it (Ok) or, its receiver
\* dropped, refuses it (SendError).
C8_SendRefusedWhileLeaving ==
    last.op = "send" =>
        /\ last.after = last.before
        /\ IF last.before = "Leaving"
           THEN last.ret = Err("ChannelError", "Leaving") /\ last.enq = <<>>
           ELSE \/ last.ret = Ok(Unit)
                   /\ last.enq = <<[last.arg EXCEPT !.topic = topic]>>
                \/ last.ret = Err("SendError", Unit)
                   /\ last.enq = <<>>
                   /\ client_tx \in dropped

\* send() was refused on a Leaving channel
C8_Witness ==
    /\ last.op = "send"
    /\ last.before = "Leaving"
    /\ last.ret = Err("ChannelError", "Leaving")
    /\ state = "Leaving"

\* the callbacks of the on_broadcast calls made under `event`, in call order
RegisteredBroadcast(event) ==
    SelectSeq(registered, LAMBDA r : r.kind = "broadcast" /\ r.event = event)

\* C9: the dispatch of a Broadcast with event name E runs every callback
\* registered under E once, with the payload's fields, in registration
\* order, and no callback registered under another name.
C9_BroadcastDispatch ==
    last.op = "Broadcast" =>
        LET regs == RegisteredBroadcast(last.arg.payload.event) IN
        last.calls = [i \in 1..Len(regs) |-> call(regs[i].callback, last.arg.payload.payload)]

\* two callbacks registered under the event of the frame ran, in their order
C9_Witness ==
    /\ last.op = "Broadcast"
    /\ Len(last.calls) = 2
    /\ last.calls[1].callback < last.calls[2].callback

\* the callbacks that ran for the last frame
Invoked == { last.calls[i].callback : i \in 1..Len(last.calls) }

\* the on_postgres_change calls
RegisteredCdc == { registered[i] : i \in { j \in 1..Len(registered) : registered[j].kind = "cdc" } }

\* C10: the dispatch of a change of type T runs exactly the callbacks that are
\* registered under T or under All and whose filter accepts the change, each
\* with the payload.
C10_ChangeDispatch ==
    last.op = "PostgresChanges" =>
        /\ Invoked = { r.callback : r \in
                        { q \in RegisteredCdc :
                            /\ q.event \in {last.arg.payload.change_type, "All"}
                            /\ check(q.filter, last.arg.payload) } }
        /\ \A i \in 1..Len(last.calls) : last.calls[i].arg = last.arg.payload

\* a change of a specific type was dispatched: the callback under All ran, the
\* one under another specific type did not
C10_Witness ==
    /\ last.op = "PostgresChanges"
    /\ last.arg.payload.change_type = "Insert"
    /\ \E r \in RegisteredCdc : r.event = "All" /\ r.callback \in Invoked
    /\ \E r \in RegisteredCdc :
          r.event = "Update" /\ check(r.filter, last.arg.payload) /\ r.callback \notin Invoked

\* how many times callback c ran for the last frame
Invocations(c) == Cardinality({ i \in 1..Len(last.calls) : last.calls[i].callback = c })

\* C11: the dispatch of a change, whatever its type, runs the callback of each
\* registration at most once.
C11_OncePerRegistration ==
    last.op = "PostgresChanges" =>
        \A r \in RegisteredCdc : Invocations(r.callback) <= 1

\* C12: set_auth(token) stores the token in the join payload in every state,
\* so that the join message of a later subscribe() carries it; with a sender
\* that takes the write it puts the one AccessToken message with that token
\* on the sender when the call found the state Joined, and nothing otherwise.
C12_SetAuth ==
    /\ owner.pc = "set_auth_send" => access_token = owner.msg.payload.access_token
    /\ last.op = "set_auth" =>
        /\ access_token = last.arg.payload.access_token
        /\ last.before # "Joined" => last.enq = <<>>
        /\ (last.before = "Joined" /\ client_tx \notin dropped) =>
              last.enq = <<message("AccessToken", topic,
                                   [kind |-> "AccessToken", access_token |-> access_token],
                                   None)>>
    /\ (last.op = "subscribe" /\ client_tx \notin dropped) =>
        /\ Len(last.enq) = 1
        /\ last.enq[1].payload = [kind |-> "Join", access_token |-> access_token]

\* set_auth ran on a Closed channel, sent nothing, and the join message of the
\* subscribe() that followed carries its token
C12_Witness ==
    /\ last.op = "subscribe"
    /\ last.before = "Closed"
    /\ Len(last.enq) = 1
    /\ last.enq[1].payload.access_token \in AccessTokens
    /\ \A i \in 1..Len(outbound[client_tx]) : outbound[client_tx][i].event # "AccessToken"

\* C13: once the loop has processed a PresenceState snapshot S,
\* presence_state() returns S; once it has processed a PresenceDiff,
\* presence_state() holds the keys that joined.
C13_PresenceReachesEngine ==
    /\ last.op = "PresenceState" => presence_state = last.arg.payload.state
    /\ last.op = "PresenceDiff" => last.arg.payload.joins \subseteq presence_state

\* C14: every frame on the inbound queue is eventually taken and dispatched
\* by the loop, the frames queued behind a Response for another ref included.
C14_EveryFrameDispatched ==
    (inbound # <<>>) ~> (inbound = <<>>)

\* C15: the dispatch of a Broadcast runs every callback registered under its
\* event, the ones after a callback that panics included, and leaves the
\* task running for the frames behind it (the task is not ended by a panic
\* while it holds no frame that fails to decode).
C15_CallbackPanicContained ==
    last.op = "Broadcast" =>
        /\ \A i \in 1..Len(RegisteredBroadcast(last.arg.payload.event)) :
              RegisteredBroadcast(last.arg.payload.event)[i].callback \in Invoked
        /\ ~(thread.pc = "panicked" /\ thread.frame.decodes)

\* C16: a send(message) call never changes the state; made when the receiver
\* of the sender is gone (and the state is not Leaving) it returns SendError
\* and queues nothing.
C16_SendErrorReturned ==
    [][ (last' # last /\ last'.op = "send") =>
            /\ state' = state
            /\ (client_tx \in dropped /\ state # "Leaving") =>
                  /\ last'.ret = Err("SendError", Unit)
                  /\ outbound' = outbound ]_vars

\* send() on a Joined channel whose receiver was dropped returned SendError,
\* and the channel is still Joined
C16_Witness ==
    /\ last.op = "send"
    /\ last.ret = Err("SendError", Unit)
    /\ last.before = "Joined"
    /\ state = "Joined"
    /\ client_tx \in dropped

\* the join request of this channel is on an outbound sender
JoinVisible ==
    \E tx \in Senders : \E i \in 1..Len(outbound[tx]) :
        outbound[tx][i].event = "PhxJoin" /\ outbound[tx][i].message_ref = Some(Id)

\* C17: whenever the join request is visible on the sender, Joining has been
\* written already (the state is Joining, or the Joined a reply made of it),
\* and a success Response with the channel's id dispatched from then on finds
\* the channel Joining (or already Joined) and leaves it Joined.
C17_JoiningBeforeJoinVisible ==
    /\ JoinVisible => state \in {"Joining", "Joined"}
    /\ (JoinVisible /\ ResponseHandled(Some(Id), "Ok")) =>
          /\ last.before \in {"Joining", "Joined"}
          /\ last.after = "Joined"

\* the reply was dispatched after the join request became visible: it found
\* the channel Joining and made it Joined
C17_Witness ==
    /\ JoinVisible
    /\ ResponseHandled(Some(Id), "Ok")
    /\ last.before = "Joining"
    /\ state = "Joined"

\* C18: subscribe() called on a Joining or Joined channel writes Joining
\* again and, with a sender that takes the write, puts one more join request
\* (event join, payload Join, ref = the channel's id, the channel's topic) on
\* the sender: every call adds one.
C18_SubscribeUnguarded ==
    /\ owner.pc = "subscribe_send" => state = "Joining"
    /\ (last.op = "subscribe" /\ last.before \in {"Joining", "Joined"}
            /\ client_tx \notin dropped) =>
          /\ state = "Joining"
          /\ last.enq = <<last.arg>>
          /\ last.arg.event = "PhxJoin"
          /\ last.arg.payload.kind = "Join"
          /\ last.arg.message_ref = Some(Id)
          /\ last.arg.topic = topic

\* two subscribe() calls, the second on a Joining channel, left two join
\* requests on the sender
C18_Witness ==
    /\ last.op = "subscribe"
    /\ last.before = "Joining"
    /\ state = "Joining"
    /\ Len(outbound[client_tx]) = 2
    /\ \A i \in 1..2 : outbound[client_tx][i].event = "PhxJoin"

\* C19: the client adds frames at the back of the queue and the loop takes
\* the frame at the front, and only when the arm of the frame before it has
\* finished; the callbacks run inside the arm of the frame in hand, with that
\* frame's payload, and nowhere else.
C19_DispatchInOrder ==
    [][ /\ routed' # routed =>
              /\ Len(inbound') = Len(inbound) + 1
              /\ SubSeq(inbound', 1, Len(inbound)) = inbound
        /\ (thread' # thread /\ thread'.pc \in {"match", "panicked"} /\ thread.pc # "match") =>
              /\ thread.pc = "recv"
              /\ inbound # <<>>
              /\ thread'.frame = Head(inbound)
              /\ inbound' = Tail(inbound)
        /\ IF thread.pc = "match" /\ thread' # thread
           THEN /\ thread'.pc # "match"
                /\ last'.arg = thread.frame
                /\ \A i \in 1..Len(last'.calls) :
                      last'.calls[i].arg = thread.frame.payload.payload
           ELSE last' = last ]_vars

\* two frames were routed and both dispatched; the second ran two callbacks
C19_Witness ==
    /\ routed = 2
    /\ inbound = <<>>
    /\ thread.pc = "recv"
    /\ last.op = "Broadcast"
    /\ Len(last.calls) = 2

\* the control messages whose arm has started, in the order they were given
Handled == SubSeq(controller.sent, 1, Len(controller.sent) - Len(controller.rx))

\* the control messages whose arm has finished
Completed ==
    IF owner.pc = "idle" THEN Handled ELSE SubSeq(Handled, 1, Len(Handled) - 1)

\* the senders after the control messages ms were applied one after the other:
\* the sender in use, and what each sender was given
RECURSIVE Sequentially(_)
Sequentially(ms) ==
    IF ms = <<>>
    THEN [tx |-> "tx0", out |-> [t \in Senders |-> <<>>]]
    ELSE LET before == Sequentially(SubSeq(ms, 1, Len(ms) - 1))
             m == ms[Len(ms)]
         IN  CASE m.kind = "ClientTx" -> [before EXCEPT !.tx = m.tx]
               [] m.kind = "Subscribe" ->
                    [before EXCEPT !.out[before.tx] = Append(@,
                        message("PhxJoin", topic,
                                [kind |-> "Join", access_token |-> ClientToken], Some(Id)))]
               [] m.kind = "Broadcast" ->
                    [before EXCEPT !.out[before.tx] = Append(@,
                        message("Broadcast", topic,
                                [kind |-> "Broadcast", event |-> m.payload.event,
                                 payload |-> m.payload.payload], None))]

\* C20: what the senders hold is what the control messages handled so far
\* give when they are applied one after the other in the order they were
\* given: each join request and broadcast is on the sender that the latest
\* ClientTx before it installed (the builder's sender when there was none).
C20_ControlSequential ==
    built =>
        /\ outbound = Sequentially(Completed).out
        /\ client_tx = Sequentially(Handled).tx

\* a Subscribe, a ClientTx for another sender and a Broadcast were handled:
\* the join request is on the first sender, the broadcast on the second
C20_Witness ==
    /\ controller.sent = << [kind |-> "Subscribe"], [kind |-> "ClientTx", tx |-> "tx1"],
                            [kind |-> "Broadcast",
                             payload |-> [event |-> "cursor", payload |-> "x=1"]] >>
    /\ controller.rx = <<>>
    /\ Len(outbound["tx0"]) = 1 /\ outbound["tx0"][1].event = "PhxJoin"
    /\ Len(outbound["tx1"]) = 1 /\ outbound["tx1"][1].event = "Broadcast"

\* the Mutexes of the channel that task `who` holds
Held(who) ==
    { l \in {"state", "cdc_callbacks", "broadcast_callbacks"} :
        \/ l = "state" /\ stateLock = who
        \/ l = "cdc_callbacks" /\ cdcLock = who
        \/ l = "broadcast_callbacks" /\ bcLock = who }

\* C21: no task holds more than one of the three Mutexes at a time, and a
\* caller that waits inside send for the Mutex of state holds none.
C21_OneLockAtATime ==
    /\ \A who \in {"thread", "caller"} : Cardinality(Held(who)) <= 1
    /\ owner.pc = "unsubscribe_send" => Held("caller") = {}

\* C22: a frame that does not decode is dropped and the task stays in its
\* loop: the task is never ended holding such a frame.
C22_DecodeFailureDropped ==
    ~(thread.pc = "panicked" /\ ~thread.frame.decodes)

\* C23: Closed is written by build() only and Errored by nothing: every other
\* write of the state is of Joining, Joined or Leaving, so a channel that has
\* left Closed is never Closed again, whatever Response is dispatched.
C23_NoWriteOfClosedOrErrored ==
    [][ state' # state =>
            IF state = NoChannel
            THEN state' = "Closed"
            ELSE state' \in {"Joining", "Joined", "Leaving"} ]_vars

\* the success reply to the leave request was dispatched to a channel that
\* subscribe() and the reply to the join had made Joined: it is not Closed
C23_Witness ==
    /\ subscribed
    /\ ResponseHandled(Some(leave_ref(Id)), "Ok")
    /\ last.before = "Joined"
    /\ state = "Joined"

\* C24: subscribe() called on a Leaving channel is not refused: Joining is
\* written before the send, so with a sender that takes the write the join
\* request is on the sender and the channel is Joining when the call returns.
C24_SubscribeWhileLeaving ==
    (last.op = "subscribe" /\ last.before = "Leaving" /\ client_tx \notin dropped) =>
        /\ last.enq = <<last.arg>>
        /\ last.arg.event = "PhxJoin"
        /\ last.arg.message_ref = Some(Id)
        /\ last.after = "Joining"
        /\ state = "Joining"

\* subscribe() returned from a channel it found Leaving, its join request the
\* one message on the sender
C24_Witness ==
    /\ last.op = "subscribe"
    /\ last.before = "Leaving"
    /\ state = "Joining"
    /\ Len(outbound[client_tx]) = 1
    /\ outbound[client_tx][1].event = "PhxJoin"

====
